---- MODULE Spec2Model ----
(***************************************************************************)
(* rsacrypt.c: 32-bit RSA key generation and file encryption/decryption.   *)
(*                                                                         *)
(* C object representation used throughout:                                *)
(*   unsigned (32 bit)            a sequence of 2 limbs, least significant *)
(*                                first, each limb in 0 .. 2^16 - 1        *)
(*   unsigned long long (64 bit)  a sequence of 4 such limbs               *)
(*   int (32 bit, two's compl.)   an integer in -2^31 .. 2^31 - 1          *)
(*   unsigned char                an integer in 0 .. 255                   *)
(* Arithmetic on the limb sequences wraps at the width of the sequence,    *)
(* as the C arithmetic on the corresponding unsigned type does.            *)
(***************************************************************************)
EXTENDS Integers, Sequences, FiniteSets, TLC

B16 == 2^16
B15 == 2^15

(* ------------------------------------------------------------------------ *)
(* Fixed-width unsigned arithmetic                                          *)
(* ------------------------------------------------------------------------ *)

Zero(k) == SubSeq(<<0, 0, 0, 0, 0, 0, 0, 0>>, 1, k)

\* zero-extension or truncation of a to k limbs (conversion between the
\* unsigned types)
Ext(a, k) == IF Len(a) >= k THEN SubSeq(a, 1, k) ELSE a \o Zero(k - Len(a))

\* the unsigned value 0 <= x < 2^31 in k limbs
Limbs(x, k) == <<x % B16, x \div B16>> \o Zero(k - 2)

U32(x) == Limbs(x, 2)
U64(x) == Limbs(x, 4)

\* 2^k as an unsigned of n limbs (zero when k does not fit)
Pow2(k, n) == IF k \div 16 >= n THEN Zero(n)
              ELSE Zero(k \div 16) \o <<2^(k % 16)>> \o Zero(n - 1 - k \div 16)

IsZero(a) == \A i \in 1..Len(a) : a[i] = 0

\* bit k (0 = least significant) of a
BitAt(a, k) == IF k \div 16 + 1 > Len(a) THEN 0
               ELSE (a[k \div 16 + 1] \div 2^(k % 16)) % 2

\* a | (bit << k)
OrBit(a, k, bit) ==
    IF bit = 1 /\ BitAt(a, k) = 0
    THEN SubSeq(a, 1, k \div 16) \o <<a[k \div 16 + 1] + 2^(k % 16)>>
             \o SubSeq(a, k \div 16 + 2, Len(a))
    ELSE a

RECURSIVE AddC(_, _, _, _)
AddC(a, b, i, c) ==
    IF i > Len(a) THEN <<>>
    ELSE LET s == a[i] + b[i] + c
         IN  <<s % B16>> \o AddC(a, b, i + 1, s \div B16)

\* a + b, wrapping at the width of a (b has the same width)
Add(a, b) == AddC(a, b, 1, 0)

RECURSIVE SubC(_, _, _, _)
SubC(a, b, i, br) ==
    IF i > Len(a) THEN <<>>
    ELSE LET s == a[i] - b[i] - br
         IN  <<s % B16>> \o SubC(a, b, i + 1, IF s < 0 THEN 1 ELSE 0)

\* a - b, wrapping at the width of a
Sub(a, b) == SubC(a, b, 1, 0)

RECURSIVE LtFrom(_, _, _)
LtFrom(a, b, i) ==
    IF i = 0 THEN FALSE
    ELSE IF a[i] # b[i] THEN a[i] < b[i]
    ELSE LtFrom(a, b, i - 1)

\* unsigned a < b (same width)
Lt(a, b) == LtFrom(a, b, Len(a))

\* the exact product of two limbs, as 2 limbs
Mul16(x, y) ==
    LET p1 == x * (y \div 256)
        p0 == x * (y % 256)
        s  == (p1 % 256) * 256 + p0
    IN  <<s % B16, p1 \div 256 + s \div B16>>

RECURSIVE MulLimbC(_, _, _, _)
MulLimbC(a, d, i, c) ==
    IF i > Len(a) THEN <<c>>
    ELSE LET p == Mul16(a[i], d)
             s == p[1] + c
         IN  <<s % B16>> \o MulLimbC(a, d, i + 1, p[2] + s \div B16)

RECURSIVE MulAcc(_, _, _, _)
MulAcc(a, b, j, acc) ==
    IF j > Len(b) THEN acc
    ELSE IF b[j] = 0 THEN MulAcc(a, b, j + 1, acc)
    ELSE MulAcc(a, b, j + 1,
                Add(acc, Ext(Zero(j - 1) \o MulLimbC(a, b[j], 1, 0),
                             Len(a) + Len(b))))

\* the exact product of a and b, Len(a) + Len(b) limbs wide
MulFull(a, b) == MulAcc(a, b, 1, Zero(Len(a) + Len(b)))

\* a * b, wrapping at the width of a
Mul(a, b) == Ext(MulFull(a, b), Len(a))

\* e, with v evaluated first: the statement that assigns v has run to
\* completion before the statements modelled by e start
Strict(v, e) == IF v = v THEN e ELSE e

\* (2 * r + bit) % n for a 32-bit r < n
ModBit(r, bit, n) ==
    LET l2 == 2 * r[1] + bit
        h2 == 2 * r[2] + l2 \div B16
        l3 == l2 % B16
    IN  IF h2 > n[2] \/ (h2 = n[2] /\ l3 >= n[1])
        THEN <<(l3 - n[1]) % B16, h2 - n[2] - (IF l3 < n[1] THEN 1 ELSE 0)>>
        ELSE <<l3, h2>>

\* binary long division: r extended by the bits hi .. lo of the limb x,
\* reduced modulo n
RECURSIVE ModBitsRange(_, _, _, _, _)
ModBitsRange(r, x, n, hi, lo) ==
    IF hi = lo THEN ModBit(r, (x \div 2^hi) % 2, n)
    ELSE LET mid == (hi + lo + 1) \div 2
             m   == ModBitsRange(r, x, n, hi, mid)
         IN  Strict(m, ModBitsRange(m, x, n, mid - 1, lo))

\* (r * 2^16 + x) % n for a 32-bit r < n and a limb x
ModStep(r, x, n) ==
    IF n[2] = 0 /\ n[1] < B15
    THEN <<(r[1] * B16 + x) % n[1], 0>>
    ELSE ModBitsRange(r, x, n, 15, 0)

\* r extended by the limbs hi .. lo of a, reduced modulo n
RECURSIVE ModLimbsRange(_, _, _, _, _)
ModLimbsRange(r, a, n, hi, lo) ==
    IF hi = lo THEN ModStep(r, a[hi], n)
    ELSE LET mid == (hi + lo + 1) \div 2
             m   == ModLimbsRange(r, a, n, hi, mid)
         IN  Strict(m, ModLimbsRange(m, a, n, mid - 1, lo))

\* a % n at the width of a, for n # 0 below 2^32
Mod(a, n) == Ext(ModLimbsRange(<<0, 0>>, a, n, Len(a), 1), Len(a))

(* ------------------------------------------------------------------------ *)
(* int: conversions and wrapping arithmetic                                 *)
(* ------------------------------------------------------------------------ *)

\* (int) u for a 32-bit unsigned u
ToInt(u) == IF u[2] >= B15 THEN (u[2] - B16) * B16 + u[1]
            ELSE u[2] * B16 + u[1]

\* (unsigned) i for an int i
ToUnsigned(i) == <<i % B16, (i \div B16) % B16>>

IntSub(a, b) == ToInt(Sub(ToUnsigned(a), ToUnsigned(b)))
IntMul(a, b) == ToInt(Mul(ToUnsigned(a), ToUnsigned(b)))

IntMin == (0 - B15) * B16

\* a / b of C (truncation towards zero), b # 0 and not IntMin / -1
IntDiv(a, b) ==
    IF b > 0
    THEN (IF a % b = 0 \/ a >= 0 THEN a \div b ELSE a \div b + 1)
    ELSE IF b = IntMin THEN (IF a = IntMin THEN 1 ELSE 0)
    ELSE LET m == -b
             t == IF a % m = 0 \/ a >= 0 THEN a \div m ELSE a \div m + 1
         IN  -t

\* a >> i for 0 <= i < 32, at the width of a
Shr(a, i) ==
    LET L(k) == IF k <= Len(a) THEN a[k] ELSE 0
        s == i \div 16
        r == i % 16
    IN  SubSeq([j \in 1..Len(a) |->
                   L(j + s) \div 2^r + (L(j + s + 1) % 2^r) * 2^(16 - r)],
               1, Len(a))

(* ------------------------------------------------------------------------ *)
(* archbits, bitsize                                                        *)
(* ------------------------------------------------------------------------ *)

\* the return value of archbits() where sizeof(unsigned) == 4
archbits == 31

\* the for loop of bitsize: i runs from archbits() down while i != 0
RECURSIVE bitsize_loop(_, _)
bitsize_loop(number, i) ==
    IF i = 0 THEN 0
    ELSE IF ~IsZero(Shr(number, i)) THEN i + 1
    ELSE bitsize_loop(number, i - 1)

bitsize(number) == bitsize_loop(number, archbits)

(* ------------------------------------------------------------------------ *)
(* ab_mod_n                                                                 *)
(* ------------------------------------------------------------------------ *)

\* B & (1 << i): 1 << i is an int, so for i = 31 it is INT_MIN, which the
\* conversion to unsigned long long sign-extends to bits 31 .. 63
ExponentBit(B, i) ==
    IF i = 31 THEN \E k \in 31..63 : BitAt(B, k) = 1
    ELSE BitAt(B, i) = 1

\* whether the exact product x (8 limbs) of two unsigned long long values
\* does not fit the 64-bit type
Wraps(x) == \E k \in 5..8 : x[k] # 0

\* ab_mod_n_body with C, D, A, B, N declared unsigned rather than unsigned
\* long long: the products wrap at 32 bits
ab_mod_n_body_narrow(st, A, B, N, i) ==
    LET C1 == Mul(st.C, U64(2))
        DD == Ext(Mul(Ext(st.D, 2), Ext(st.D, 2)), 4)
        D1 == Mod(DD, N)
        DA == Ext(Mul(Ext(D1, 2), Ext(A, 2)), 4)
    IN  IF ExponentBit(B, i)
        THEN [C |-> Add(C1, U64(1)), D |-> Mod(DA, N), wrapped |-> st.wrapped]
        ELSE [C |-> C1, D |-> D1, wrapped |-> st.wrapped]

\* one pass of the loop body for exponent bit i; st = [C, D, wrapped]
ab_mod_n_body(st, A, B, N, i) ==
    LET C1 == Mul(st.C, U64(2))
        DD == MulFull(st.D, st.D)
        D1 == Mod(Ext(DD, 4), N)
        DA == MulFull(D1, A)
    IN  IF ExponentBit(B, i)
        THEN [C |-> Add(C1, U64(1)),
              D |-> Mod(Ext(DA, 4), N),
              wrapped |-> st.wrapped \/ Wraps(DD) \/ Wraps(DA)]
        ELSE [C |-> C1, D |-> D1, wrapped |-> st.wrapped \/ Wraps(DD)]

\* for (i = archbits(); 1; i--) { ...; if (i == 0) break; }
\* the passes for the exponent bits hi down to lo, from the locals st
RECURSIVE ab_mod_n_loop(_, _, _, _, _, _)
ab_mod_n_loop(st, A, B, N, hi, lo) ==
    IF hi = lo THEN ab_mod_n_body(st, A, B, N, hi)
    ELSE LET mid == (hi + lo + 1) \div 2
             m   == ab_mod_n_loop(st, A, B, N, hi, mid)
         IN  Strict(m, ab_mod_n_loop(m, A, B, N, mid - 1, lo))

\* the locals at the return statement, for n # 0
ab_mod_n_run(a, b, n) ==
    ab_mod_n_loop([C |-> U64(0), D |-> U64(1), wrapped |-> FALSE],
                  Ext(a, 4), Ext(b, 4), Ext(n, 4), archbits, 0)

\* return (unsigned) D
ab_mod_n(a, b, n) == Ext(ab_mod_n_run(a, b, n).D, 2)

(* ------------------------------------------------------------------------ *)
(* check_gcd                                                                *)
(* ------------------------------------------------------------------------ *)

\* One pass of the while loop of check_gcd on its int locals
\* s = [x1, x2, x3, y1, y2, y3], until the function has returned (s.done)
\* or the division INT_MIN / -1 has killed the process (s.trap, SIGFPE).
\* int multiplication and subtraction wrap as the two's complement machine
\* instructions do.
check_gcd_pass(s, f) ==
    IF s.done \/ s.trap THEN s
    ELSE IF s.y3 = 0 THEN [s EXCEPT !.done = TRUE, !.val = U32(0)]
    ELSE IF s.y3 = 1
    THEN [s EXCEPT !.done = TRUE,
                   !.val = IF s.y2 < 0 THEN Add(f, ToUnsigned(s.y2))
                           ELSE ToUnsigned(s.y2)]
    ELSE IF s.x3 = IntMin /\ s.y3 = -1 THEN [s EXCEPT !.trap = TRUE]
    ELSE LET q == IntDiv(s.x3, s.y3)
         IN  [s EXCEPT !.x1 = s.y1, !.x2 = s.y2, !.x3 = s.y3,
                       !.y1 = IntSub(s.x1, IntMul(q, s.y1)),
                       !.y2 = IntSub(s.x2, IntMul(q, s.y2)),
                       !.y3 = IntSub(s.x3, IntMul(q, s.y3))]

\* the bound on the passes of the while loop is 2^GcdRounds; the absolute
\* values of y3 decrease at least as fast as the Fibonacci numbers, so a
\* call on 32-bit arguments returns within 48 passes
GcdRounds == 6

\* 2^k passes of the while loop
RECURSIVE check_gcd_loop(_, _, _)
check_gcd_loop(s, f, k) ==
    IF k = 0 THEN check_gcd_pass(s, f)
    ELSE LET m == check_gcd_loop(s, f, k - 1)
         IN  Strict(m, check_gcd_loop(m, f, k - 1))

\* [trap, val]: whether the call was killed and, if not, its return value
check_gcd(d, f) ==
    LET s == check_gcd_loop([x1 |-> 1, x2 |-> 0, x3 |-> ToInt(f),
                             y1 |-> 0, y2 |-> 1, y3 |-> ToInt(d),
                             done |-> FALSE, trap |-> FALSE, val |-> U32(0)],
                            f, GcdRounds)
    IN  [trap |-> s.trap \/ ~s.done, val |-> s.val]

(* ------------------------------------------------------------------------ *)
(* generate_keys                                                            *)
(* ------------------------------------------------------------------------ *)

\* for (e = 2; e < f; e++) if ((d = check_gcd(e, f)) != 0) break;
\* the result is the values of e and d after the loop
RECURSIVE exponent_loop(_, _, _)
exponent_loop(e, f, d) ==
    IF ~Lt(e, f) THEN [trap |-> FALSE, e |-> e, d |-> d]
    ELSE LET r == check_gcd(e, f)
         IN  IF r.trap THEN [trap |-> TRUE, e |-> e, d |-> d]
             ELSE IF ~IsZero(r.val) THEN [trap |-> FALSE, e |-> e, d |-> r.val]
             ELSE exponent_loop(Add(e, U32(1)), f, r.val)

\* what generate_keys(p, q) prints and how it exits
generate_keys(p, q) ==
    LET n == Mul(p, q)
        f == Mul(Sub(p, U32(1)), Sub(q, U32(1)))
        r == exponent_loop(U32(2), f, U32(0))
    IN  IF bitsize(p) + bitsize(q) > 32
        THEN [exit |-> "overflow", e |-> U32(0), n |-> n, d |-> U32(0)]
        ELSE IF r.trap
        THEN [exit |-> "sigfpe", e |-> r.e, n |-> n, d |-> r.d]
        ELSE IF r.e = f
        THEN [exit |-> "noexponent", e |-> r.e, n |-> n, d |-> r.d]
        ELSE [exit |-> "success", e |-> r.e, n |-> n, d |-> r.d]

(* ------------------------------------------------------------------------ *)
(* readbits, writebits                                                      *)
(* ------------------------------------------------------------------------ *)

\* A block of memory is the sequence of its bytes: the byte at offset o from
\* the start of the block is mem[o + 1].  A cursor is a byte offset buf into
\* the block and a bit position bitpos.

\* k bytes, each of value g
Bytes(k, g) == SubSeq([i \in 1..k |-> g], 1, k)

\* byte | (bit << bitpos)
OrByte(byte, bitpos, bit) ==
    IF bit = 1 /\ (byte \div 2^bitpos) % 2 = 0 THEN byte + 2^bitpos ELSE byte

\* One pass of the while loop of readbits on
\* st = [buf, bitpos, result, counter, oob].  A byte outside the block reads
\* as the indeterminate value stray, and st.oob records that it was
\* dereferenced.
readbits_pass(st, mem, stray) ==
    LET inside == st.buf < Len(mem)
        byte   == IF inside THEN mem[st.buf + 1] ELSE stray
        bit    == (byte \div 2^st.bitpos) % 2
        wrap   == st.bitpos + 1 >= 8
    IN  [buf     |-> IF wrap THEN st.buf + 1 ELSE st.buf,
         bitpos  |-> IF wrap THEN 0 ELSE st.bitpos + 1,
         result  |-> OrBit(st.result, st.counter, bit),
         counter |-> st.counter + 1,
         oob     |-> st.oob \/ ~inside]

\* while (n != 0) { ...; n--; }
RECURSIVE readbits_loop(_, _, _, _)
readbits_loop(st, mem, stray, n) ==
    IF n = 0 THEN st
    ELSE IF n = 1 THEN readbits_pass(st, mem, stray)
    ELSE LET m == readbits_loop(st, mem, stray, n \div 2)
         IN  Strict(m, readbits_loop(m, mem, stray, n - n \div 2))

\* readbits(&buf, &bitpos, n) on the block mem: the result and the updated
\* cursor
readbits(mem, stray, cur, n) ==
    readbits_loop([buf |-> cur.buf, bitpos |-> cur.bitpos, result |-> U32(0),
                   counter |-> 0, oob |-> FALSE], mem, stray, n)

\* writebits_pass with the byte assigned rather than or-ed
writebits_pass_assign(st, value) ==
    LET inside == st.buf < Len(st.mem)
        bit    == BitAt(value, st.counter)
        wrap   == st.bitpos + 1 >= 8
    IN  [mem     |-> IF inside
                     THEN [st.mem EXCEPT ![st.buf + 1] = bit * 2^st.bitpos]
                     ELSE st.mem,
         buf     |-> IF wrap THEN st.buf + 1 ELSE st.buf,
         bitpos  |-> IF wrap THEN 0 ELSE st.bitpos + 1,
         counter |-> st.counter + 1,
         oob     |-> st.oob \/ ~inside]

\* One pass of the while loop of writebits on
\* st = [mem, buf, bitpos, counter, oob].
writebits_pass(st, value) ==
    LET inside == st.buf < Len(st.mem)
        bit    == BitAt(value, st.counter)
        wrap   == st.bitpos + 1 >= 8
    IN  [mem     |-> IF inside
                     THEN [st.mem EXCEPT ![st.buf + 1] =
                                             OrByte(@, st.bitpos, bit)]
                     ELSE st.mem,
         buf     |-> IF wrap THEN st.buf + 1 ELSE st.buf,
         bitpos  |-> IF wrap THEN 0 ELSE st.bitpos + 1,
         counter |-> st.counter + 1,
         oob     |-> st.oob \/ ~inside]

\* while (n != 0) { ...; n--; }
RECURSIVE writebits_loop(_, _, _)
writebits_loop(st, value, n) ==
    IF n = 0 THEN st
    ELSE IF n = 1 THEN writebits_pass(st, value)
    ELSE LET m == writebits_loop(st, value, n \div 2)
         IN  Strict(m, writebits_loop(m, value, n - n \div 2))

\* writebits(&buf, &bitpos, n, value) on the block mem: the block and the
\* cursor after the call
writebits(mem, cur, n, value) ==
    writebits_loop([mem |-> mem, buf |-> cur.buf, bitpos |-> cur.bitpos,
                    counter |-> 0, oob |-> FALSE], value, n)

(* ------------------------------------------------------------------------ *)
(* read_file, encrypt_file, decrypt_file                                    *)
(* ------------------------------------------------------------------------ *)

\* The block read_file allocates for a file that is not empty: the bytes of
\* the file followed by the 2 * sizeof(int) bytes it leaves indeterminate
\* (pad).  For an empty file it returns before allocating anything.
read_file(file, pad) ==
    [buf |-> IF Len(file) = 0 THEN <<>> ELSE file \o pad, len |-> Len(file)]

\* the sizeof(off_t) = 8 bytes of the object representation of buflen, for
\* 0 <= buflen < 2^31
LengthBytes(buflen) ==
    <<buflen % 256, (buflen \div 256) % 256, (buflen \div B16) % 256,
      buflen \div (256 * B16), 0, 0, 0, 0>>

\* *(off_t *) buf is negative
LengthNegative(buf) == buf[8] >= 128

\* *(off_t *) buf is in 0 .. 2^31 - 1, where the conversions to int of
\* decrypt_file keep the value
LengthSmall(buf) ==
    buf[8] = 0 /\ buf[7] = 0 /\ buf[6] = 0 /\ buf[5] = 0 /\ buf[4] < 128

\* *(off_t *) buf when LengthSmall(buf)
LengthValue(buf) == buf[1] + 256 * buf[2] + B16 * buf[3] + 256 * B16 * buf[4]

\* One pass of the while loop of encrypt_file on
\* st = [text, dest, dest_text, oob] (text and dest_text are cursors, dest is
\* the block at destbuf), or nothing once its condition is false.
\* k = [buf, buflen, stray, srcbits, destbits, e, n] holds what the loop does
\* not change.
encrypt_pass(st, k) ==
    IF ~(st.text.buf < k.buflen) THEN st
    ELSE LET r == readbits(k.buf, k.stray, st.text, k.srcbits)
             c == ab_mod_n(r.result, k.e, k.n)
             w == writebits(st.dest, st.dest_text, k.destbits, c)
         IN  [text      |-> [buf |-> r.buf, bitpos |-> r.bitpos],
              dest      |-> w.mem,
              dest_text |-> [buf |-> w.buf, bitpos |-> w.bitpos],
              oob       |-> st.oob \/ r.oob \/ w.oob]

\* up to m passes of the while loop
RECURSIVE encrypt_loop(_, _, _)
encrypt_loop(st, k, m) ==
    IF m = 0 THEN st
    ELSE IF m = 1 THEN encrypt_pass(st, k)
    ELSE LET h == encrypt_loop(st, k, m \div 2)
         IN  Strict(h, encrypt_loop(h, k, m - m \div 2))

\* encrypt_file on a file with the given bytes, for n >= 2: the bytes of the
\* file afterwards and whether a byte outside a block was dereferenced.
\* pad is the indeterminate tail of the block of read_file and fill the
\* indeterminate value of each byte of the block malloc returns for destbuf.
\* Every pass of the loop reads srcbits >= 1 bits, so it ends within
\* 8 * buflen passes.
encrypt_file(file, e, n, pad, fill) ==
    LET buflen     == Len(file)
        destbits   == bitsize(n)
        srcbits    == destbits - 1
        extraspace == 8 + buflen \div srcbits
        st == encrypt_loop(
                  [text      |-> [buf |-> 0, bitpos |-> 0],
                   dest      |-> Bytes(buflen + extraspace, fill),
                   dest_text |-> [buf |-> 0, bitpos |-> 0],
                   oob       |-> FALSE],
                  [buf |-> read_file(file, pad).buf, buflen |-> buflen,
                   stray |-> fill, srcbits |-> srcbits,
                   destbits |-> destbits, e |-> e, n |-> n],
                  8 * buflen)
        len == st.dest_text.buf + 1
    IN  [file |-> LengthBytes(buflen)
                      \o SubSeq(st.dest \o Bytes(1, fill), 1, len),
         oob  |-> st.oob \/ len > Len(st.dest)]

\* One pass of the while loop of decrypt_file on
\* st = [decrpt_src, dest, decrpt_dst, oob], or nothing once its condition
\* is false.  decrpt_src is a cursor into the block of read_file, which
\* starts sizeof(off_t) bytes before the first byte it reads.
\* k = [buf, origfilelen, stray, srcbits, dstbits, d, n].
decrypt_pass(st, k) ==
    IF ~(st.decrpt_dst.buf <= k.origfilelen) THEN st
    ELSE LET r == readbits(k.buf, k.stray, st.decrpt_src, k.srcbits)
             c == ab_mod_n(r.result, k.d, k.n)
             w == writebits(st.dest, st.decrpt_dst, k.dstbits, c)
         IN  [decrpt_src |-> [buf |-> r.buf, bitpos |-> r.bitpos],
              dest       |-> w.mem,
              decrpt_dst |-> [buf |-> w.buf, bitpos |-> w.bitpos],
              oob        |-> st.oob \/ r.oob \/ w.oob]

\* up to m passes of the while loop
RECURSIVE decrypt_loop(_, _, _)
decrypt_loop(st, k, m) ==
    IF m = 0 THEN st
    ELSE IF m = 1 THEN decrypt_pass(st, k)
    ELSE LET h == decrypt_loop(st, k, m \div 2)
         IN  Strict(h, decrypt_loop(h, k, m - m \div 2))

\* decrypt_file on a file that is not empty and whose length field is
\* below 2^31, for n >= 2: how it exits, the bytes of the file afterwards and
\* whether a byte outside a block was dereferenced.  pad and fill are as
\* for encrypt_file.  Every pass of the loop writes dstbits >= 1 bits, so it
\* ends within 8 * (origfilelen + 1) passes.
decrypt_file(file, d, n, pad, fill) ==
    LET rf          == read_file(file, pad)
        srcbits     == bitsize(n)
        dstbits     == srcbits - 1
        origfilelen == LengthValue(rf.buf)
        lendiff     == origfilelen - (rf.len - 8)
        maxdiff     == origfilelen \div dstbits + 1 + 8
        st == decrypt_loop(
                  [decrpt_src |-> [buf |-> 8, bitpos |-> 0],
                   dest       |-> Bytes(origfilelen + 8, fill),
                   decrpt_dst |-> [buf |-> 0, bitpos |-> 0],
                   oob        |-> FALSE],
                  [buf |-> rf.buf, origfilelen |-> origfilelen,
                   stray |-> fill, srcbits |-> srcbits, dstbits |-> dstbits,
                   d |-> d, n |-> n],
                  8 * (origfilelen + 1))
    IN  IF LengthNegative(rf.buf) \/ lendiff < 0 - maxdiff \/ lendiff > maxdiff
        THEN [exit |-> "corrupted", file |-> file, oob |-> FALSE]
        ELSE [exit |-> "success",
              file |-> SubSeq(st.dest, 1, origfilelen),
              oob  |-> st.oob]

(* ------------------------------------------------------------------------ *)
(* Mathematical reference definitions on unsigned values                    *)
(* ------------------------------------------------------------------------ *)

\* the minimum number of bits needed to represent the 32-bit x
BitLength(x) ==
    CHOOSE k \in 0..32 :
        /\ k = 32 \/ Lt(x, Pow2(k, 2))
        /\ k = 0 \/ ~Lt(x, Pow2(k - 1, 2))

\* the greatest common divisor of the 32-bit a and b (gcd(a, 0) = a)
RECURSIVE Gcd(_, _)
Gcd(a, b) == IF IsZero(b) THEN a ELSE Gcd(b, Mod(a, b))

\* (x * y) mod n for 32-bit x, y and n # 0
MulMod(x, y, n) == Ext(Mod(MulFull(x, y), n), 2)

\* a^b mod n for n # 0 as the product of the a^(2^i) mod n over the set
\* bits i of b: w = [acc, sq] with sq = a^(2^i) mod n, for i from lo to hi
RECURSIVE PowModRange(_, _, _, _, _)
PowModRange(w, b, n, lo, hi) ==
    IF lo = hi
    THEN [acc |-> IF BitAt(b, lo) = 1 THEN MulMod(w.acc, w.sq, n) ELSE w.acc,
          sq  |-> MulMod(w.sq, w.sq, n)]
    ELSE LET mid == (lo + hi) \div 2
             m   == PowModRange(w, b, n, lo, mid)
         IN  Strict(m, PowModRange(m, b, n, mid + 1, hi))

PowMod(a, b, n) ==
    PowModRange([acc |-> Mod(U32(1), n), sq |-> Mod(a, n)], b, n, 0, 31).acc

\* x is a multiplicative inverse of d modulo f
IsInverse(x, d, f) == ~IsZero(f) /\ MulMod(x, d, f) = U32(1)

(* ------------------------------------------------------------------------ *)
(* State                                                                    *)
(* ------------------------------------------------------------------------ *)

VARIABLES
    pc,     \* the position of the process
    arg,    \* the arguments of the call under way
    res,    \* what the call returned or printed
    file,   \* the bytes of the file named on the command line
    heap,   \* the allocated blocks: their bytes and the cursors into them
    oob     \* whether a byte outside an allocated block was dereferenced

vars == <<pc, arg, res, file, heap, oob>>

None == <<>>

\* no file is named and nothing is allocated
NoFile == file = <<>> /\ heap = None /\ oob = FALSE

(* ------------------------------------------------------------------------ *)
(* bitsize(number) on its own                                               *)
(* ------------------------------------------------------------------------ *)

BitsizeInputs ==
    {Pow2(k, 2) : k \in 0..31} \cup
    {Sub(Pow2(k, 2), U32(1)) : k \in 0..31} \cup
    {Add(Pow2(k, 2), U32(1)) : k \in 0..31}

InitBitsize ==
    /\ pc = "start"
    /\ arg \in {[number |-> x] : x \in BitsizeInputs}
    /\ res = None
    /\ NoFile

CallBitsize ==
    /\ pc = "start"
    /\ pc' = "done"
    /\ res' = bitsize(arg.number)
    /\ UNCHANGED <<arg, file, heap, oob>>

NextBitsize == CallBitsize

SpecBitsize == InitBitsize /\ [][NextBitsize]_vars

\* C8: bitsize(x) is the minimum number of bits needed to represent x: 0 for
\* x = 0 and the index of the highest set bit plus one otherwise.
C8_BitsizeIsBitLength == pc = "done" => res = BitLength(arg.number)

(* ------------------------------------------------------------------------ *)
(* ab_mod_n(a, b, n) on its own                                             *)
(* ------------------------------------------------------------------------ *)

Max32 == <<B16 - 1, B16 - 1>>

PowBases     == {U32(0), U32(2), U32(3), U32(B16 + 1), Pow2(31, 2), Max32}
PowExponents == {U32(0), U32(1), U32(2), U32(5), U32(B16 + 1),
                 Sub(Pow2(31, 2), U32(1)), Pow2(31, 2), Max32}
PowModuli    == {U32(1), U32(2), U32(7), U32(B16 + 1),
                 Sub(Pow2(31, 2), U32(1)), Sub(Max32, U32(4)), Max32}

InitPow ==
    /\ pc = "start"
    /\ arg \in {[a |-> a, b |-> b, n |-> n] :
                    a \in PowBases, b \in PowExponents, n \in PowModuli}
    /\ res = None
    /\ NoFile

CallPow ==
    /\ pc = "start"
    /\ pc' = "done"
    /\ res' = ab_mod_n_run(arg.a, arg.b, arg.n)
    /\ UNCHANGED <<arg, file, heap, oob>>

NextPow == CallPow

SpecPow == InitPow /\ [][NextPow]_vars

\* C6: for n > 0, ab_mod_n(a, b, n) returns a^b mod n (a^0 mod n = 1 mod n);
\* it scans the 32 exponent bits from bit 31 down to bit 0 (so the bits
\* collected in C, most significant first, spell b), and no product D*D or
\* D*A reaches 2^64.
C6_PowMod ==
    pc = "done" =>
        /\ Ext(res.D, 2) = PowMod(arg.a, arg.b, arg.n)
        /\ res.C = Ext(arg.b, 4)
        /\ ~res.wrapped

\* a call whose exponent has bit 31 set, whose modulus needs 32 bits and
\* whose base needs more than 16 bits, with a result other than 0 and 1
C6_Witness ==
    /\ pc = "done"
    /\ BitAt(arg.b, 31) = 1
    /\ BitAt(arg.n, 31) = 1
    /\ arg.a[2] # 0
    /\ Lt(U32(1), Ext(res.D, 2))

(* ------------------------------------------------------------------------ *)
(* check_gcd(d, f) on its own                                               *)
(* ------------------------------------------------------------------------ *)

GcdValues ==
    {U32(0), U32(1), U32(2), U32(3), U32(4), U32(5), U32(7), U32(9),
     U32(B16 - 1), U32(B16 + 1), Sub(Pow2(31, 2), U32(1)), Pow2(31, 2),
     Add(Pow2(31, 2), U32(1)), Sub(Max32, U32(1)), Max32}

InitGcd ==
    /\ pc = "start"
    /\ arg \in {[d |-> d, f |-> f] :
                    d \in GcdValues, f \in {x \in GcdValues : Lt(U32(1), x)}}
    /\ res = None
    /\ NoFile

CallGcd ==
    /\ pc = "start"
    /\ pc' = "done"
    /\ res' = check_gcd(arg.d, arg.f)
    /\ UNCHANGED <<arg, file, heap, oob>>

NextGcd == CallGcd

SpecGcd == InitGcd /\ [][NextGcd]_vars

\* C5: for f > 1, check_gcd(d, f) returns x with 0 <= x < f and
\* (x * d) mod f = 1 when gcd(d, f) = 1, and returns 0 when gcd(d, f) # 1.
C5_InverseSolver ==
    pc = "done" =>
        /\ ~res.trap
        /\ IF Gcd(arg.d, arg.f) = U32(1)
           THEN Lt(res.val, arg.f) /\ IsInverse(res.val, arg.d, arg.f)
           ELSE res.val = U32(0)

(* ------------------------------------------------------------------------ *)
(* generate_keys(p, q)                                                      *)
(* ------------------------------------------------------------------------ *)

KeyInputs ==
    {U32(1), U32(2), U32(3), U32(5), U32(7), U32(11), U32(13), U32(1511),
     U32(1709), U32(46349), U32(46351), U32(65519), U32(65521),
     U32(B16 + 1), Sub(Pow2(31, 2), U32(1)), Pow2(31, 2), Max32}

InitKeys ==
    /\ pc = "start"
    /\ arg \in {[p |-> p, q |-> q] : p \in KeyInputs, q \in KeyInputs}
    /\ res = None
    /\ NoFile

CallGenerateKeys ==
    /\ pc = "start"
    /\ pc' = "done"
    /\ res' = generate_keys(arg.p, arg.q)
    /\ UNCHANGED <<arg, file, heap, oob>>

NextKeys == CallGenerateKeys

SpecKeys == InitKeys /\ [][NextKeys]_vars

\* key generation from two distinct primes
PrimeInputs ==
    {U32(2), U32(3), U32(5), U32(7), U32(11), U32(13), U32(1511), U32(1709),
     U32(46337), U32(46349), U32(46351), U32(65519), U32(65521),
     U32(B16 + 1)}

InitPrimeKeys ==
    /\ pc = "start"
    /\ arg \in {a \in {[p |-> p, q |-> q] : p \in PrimeInputs, q \in PrimeInputs} :
                    a.p # a.q}
    /\ res = None
    /\ NoFile

SpecPrimeKeys == InitPrimeKeys /\ [][NextKeys]_vars

\* (p - 1)(q - 1) and p * q as exact 64-bit values, for p, q >= 1
Totient(p, q) == MulFull(Sub(p, U32(1)), Sub(q, U32(1)))
Product(p, q) == MulFull(p, q)

\* e in [2, f) is invertible modulo the 32-bit f
Invertible(e, f) == Lt(U32(1), e) /\ Lt(e, f) /\ Gcd(e, f) = U32(1)

\* The exponents that decide whether [2, f) holds an invertible e and which
\* one is the smallest: the least e coprime to f is a prime not dividing f,
\* and 2 * 3 * 5 * ... * 29 > 2^32, so it is at most 29 when it is below f;
\* f - 1 is coprime to f.
Candidates(f) == {U32(e) : e \in 2..29} \cup {Sub(f, U32(1))}

HasExponent(f) == \E e \in Candidates(f) : Invertible(e, f)

SmallestExponent(f) ==
    CHOOSE e \in Candidates(f) :
        /\ Invertible(e, f)
        /\ \A e2 \in Candidates(f) : Invertible(e2, f) => ~Lt(e2, e)

\* C2: when generate_keys(p, q) prints a key pair, with f = (p-1)(q-1): e is
\* the smallest integer >= 2 with an inverse modulo f, n = p*q, 0 <= d < f
\* and (e*d) mod f = 1; also when f >= 2^31.
C2_KeyPair ==
    (pc = "done" /\ res.exit = "success") =>
        LET f == Totient(arg.p, arg.q)
        IN  /\ Ext(res.n, 4) = Product(arg.p, arg.q)
            /\ f[3] = 0 /\ f[4] = 0
            /\ HasExponent(Ext(f, 2))
            /\ res.e = SmallestExponent(Ext(f, 2))
            /\ Lt(res.d, Ext(f, 2))
            /\ IsInverse(res.d, res.e, Ext(f, 2))

\* C3: generate_keys(p, q) fails with the overflow error whenever
\* bitlength(p) + bitlength(q) > 32.
C3_Overflow ==
    (pc = "done" /\ BitLength(arg.p) + BitLength(arg.q) > 32) =>
        res.exit = "overflow"

\* C4: generate_keys(p, q) fails with the no-valid-exponent error whenever
\* no e in [2, f) has an inverse modulo f = (p-1)(q-1) (f = 0, 1, 2
\* included); it never prints a key pair with d = 0.
C4_NoExponent ==
    (pc = "done" /\ res.exit # "overflow") =>
        LET f == Totient(arg.p, arg.q)
        IN  /\ (f[3] = 0 /\ f[4] = 0 /\ ~HasExponent(Ext(f, 2)))
                    => res.exit = "noexponent"
            /\ res.exit = "success" => res.d # U32(0)

(* ------------------------------------------------------------------------ *)
(* writebits and readbits on a zeroed block                                 *)
(* ------------------------------------------------------------------------ *)

\* the number of fields written
MaxFields == 3

\* fields [width, value] with value < 2^width
Fields ==
    {[width |-> 0,  value |-> U32(0)],
     [width |-> 1,  value |-> U32(1)],
     [width |-> 3,  value |-> U32(5)],
     [width |-> 8,  value |-> U32(255)],
     [width |-> 13, value |-> U32(4660)],
     [width |-> 32, value |-> <<1, B15>>],
     [width |-> 32, value |-> Max32]}

Origin == [buf |-> 0, bitpos |-> 0]

\* arg holds the fields written so far and res the values read so far;
\* heap.mem is the block, heap.w the cursor of the writer and heap.r the
\* cursor of the reader
InitBits ==
    /\ pc = "writing"
    /\ arg = <<>>
    /\ res = <<>>
    /\ file = <<>>
    /\ heap = [mem |-> Bytes(4 * MaxFields + 1, 0), w |-> Origin, r |-> Origin]
    /\ oob = FALSE

WriteField(fld) ==
    /\ pc = "writing"
    /\ Len(arg) < MaxFields
    /\ LET st == writebits(heap.mem, heap.w, fld.width, fld.value)
       IN  /\ heap' = [heap EXCEPT !.mem = st.mem,
                                   !.w = [buf |-> st.buf, bitpos |-> st.bitpos]]
           /\ oob' = (oob \/ st.oob)
    /\ arg' = Append(arg, fld)
    /\ UNCHANGED <<pc, res, file>>

StartRead ==
    /\ pc = "writing"
    /\ pc' = "reading"
    /\ UNCHANGED <<arg, res, file, heap, oob>>

ReadField ==
    /\ pc = "reading"
    /\ Len(res) < Len(arg)
    /\ LET st == readbits(heap.mem, 0, heap.r, arg[Len(res) + 1].width)
       IN  /\ res' = Append(res, st.result)
           /\ heap' = [heap EXCEPT !.r = [buf |-> st.buf, bitpos |-> st.bitpos]]
           /\ oob' = (oob \/ st.oob)
    /\ UNCHANGED <<pc, arg, file>>

NextBits == (\E fld \in Fields : WriteField(fld)) \/ StartRead \/ ReadField

SpecBits == InitBits /\ [][NextBits]_vars

\* the sum of the widths of the first k fields of fs
RECURSIVE WidthSum(_, _)
WidthSum(fs, k) == IF k = 0 THEN 0 ELSE WidthSum(fs, k - 1) + fs[k].width

\* the number of bits between the start of the block and the cursor
CursorBits(cur) == 8 * cur.buf + cur.bitpos

\* C7: fields of widths 0 .. 32 written with writebits on a zeroed block from
\* (byte 0, bit 0) and read with readbits with the same widths from (byte 0,
\* bit 0) come back with their values; after each call the cursor has
\* advanced by the width of the field and its bit offset is in 0 .. 7.
C7_BitPacking ==
    /\ \A i \in 1..Len(res) : res[i] = arg[i].value
    /\ CursorBits(heap.w) = WidthSum(arg, Len(arg))
    /\ CursorBits(heap.r) = WidthSum(arg, Len(res))
    /\ heap.w.bitpos \in 0..7
    /\ heap.r.bitpos \in 0..7
    /\ ~oob

\* three fields read back, one of 32 bits that starts inside a byte and has
\* its top bit set, one of no bits; the reader stops inside a byte
C7_Witness ==
    /\ pc = "reading"
    /\ Len(res) = 3
    /\ \E i \in 2..3 : /\ arg[i].width = 32
                       /\ WidthSum(arg, i - 1) % 8 # 0
                       /\ res[i][2] >= B15
    /\ \E i \in 1..3 : arg[i].width = 0
    /\ heap.r.bitpos # 0

(* ------------------------------------------------------------------------ *)
(* rsa -g p q, rsa -e e n file, rsa -d d n file in sequence                 *)
(* ------------------------------------------------------------------------ *)

\* the length of the plaintext
MaxLen == 2

\* values of an indeterminate byte
Indeterminate == {0, 255}

PrimePairs ==
    {<<U32(2), U32(3)>>, <<U32(2), U32(5)>>, <<U32(3), U32(5)>>,
     <<U32(11), U32(13)>>, <<U32(1511), U32(1709)>>,
     <<U32(65521), U32(65519)>>}

PlainBytes == {0, 82}

\* the byte sequences of length 0 .. k over PlainBytes
RECURSIVE Plaintexts(_)
Plaintexts(k) ==
    IF k = 0 THEN {<<>>}
    ELSE Plaintexts(k - 1) \cup
         {Append(t, b) : t \in {u \in Plaintexts(k - 1) : Len(u) = k - 1},
                         b \in PlainBytes}

InitFile ==
    /\ pc = "start"
    /\ arg \in {[p |-> pq[1], q |-> pq[2], plain |-> t] :
                    pq \in PrimePairs, t \in Plaintexts(MaxLen)}
    /\ res = None
    /\ file = arg.plain
    /\ heap = None
    /\ oob = FALSE

\* rsa -g p q
KeyGen ==
    /\ pc = "start"
    /\ res' = generate_keys(arg.p, arg.q)
    /\ pc' = IF res'.exit = "success" THEN "keys" ELSE "nokeys"
    /\ UNCHANGED <<arg, file, heap, oob>>

\* rsa -e e n file, with the printed e and n; heap records, for each run,
\* the indeterminate bytes it found in its blocks
Encrypt(pad, fill) ==
    /\ pc = "keys"
    /\ \E r \in {encrypt_file(file, res.e, res.n, pad, fill)} :
           file' = r.file /\ oob' = r.oob
    /\ heap' = Append(heap, [pad |-> pad, fill |-> fill])
    /\ pc' = "encrypted"
    /\ UNCHANGED <<arg, res>>

\* rsa -d d n file, with the printed d and n, on a file that is not empty
\* and whose length field is below 2^31
Decrypt(pad, fill) ==
    /\ pc = "encrypted"
    /\ file # <<>>
    /\ LengthNegative(read_file(file, pad).buf)
           \/ LengthSmall(read_file(file, pad).buf)
    /\ \E r \in {decrypt_file(file, res.d, res.n, pad, fill)} :
           /\ file' = r.file
           /\ oob' = r.oob
           /\ pc' = IF r.exit = "success" THEN "decrypted" ELSE "corrupted"
    /\ heap' = Append(heap, [pad |-> pad, fill |-> fill])
    /\ UNCHANGED <<arg, res>>

\* the blocks of one run hold the same indeterminate byte throughout
NextFile ==
    \/ KeyGen
    \/ \E g \in Indeterminate : Encrypt(Bytes(8, g), g)
    \/ \E g \in Indeterminate : Decrypt(Bytes(8, g), g)

SpecFile == InitFile /\ [][NextFile]_vars

\* C1: with the key pair generated from two distinct primes p, q with
\* bitlength(p) + bitlength(q) <= 32, decrypting the encrypted file gives
\* back the L >= 0 bytes of the plaintext.
C1_RoundTrip ==
    /\ pc # "corrupted"
    /\ pc = "decrypted" => file = arg.plain

\* the i-th field of width bits of the block mem (i >= 1)
FieldAt(mem, width, i) ==
    readbits(mem, 0, [buf |-> ((i - 1) * width) \div 8,
                      bitpos |-> ((i - 1) * width) % 8], width).result

\* the number of srcbits-wide blocks encrypt_file takes from len bytes
BlockCount(len, srcbits) == (8 * len + srcbits - 1) \div srcbits

\* C9: the bytes encrypt_file writes do not depend on the content of the
\* block malloc returned for its output, and the i-th destbits-wide field of
\* the ciphertext is pow_mod(block_i, e, n) for the i-th srcbits-wide block
\* of the plaintext.
C9_OutputIgnoresBuffer ==
    pc = "encrypted" =>
        LET destbits == bitsize(res.n)
            srcbits  == destbits - 1
            body     == SubSeq(file, 9, Len(file))
        IN  /\ \A g \in Indeterminate :
                   encrypt_file(arg.plain, res.e, res.n, heap[1].pad, g).file = file
            /\ \A i \in 1..BlockCount(Len(arg.plain), srcbits) :
                   FieldAt(body, destbits, i) =
                       PowMod(FieldAt(arg.plain \o heap[1].pad, srcbits, i),
                              res.e, res.n)

\* a run whose blocks held only zero bytes and whose round trip fails anyway
C1_ZeroedBlocksWitness ==
    /\ pc = "decrypted"
    /\ \A i \in 1..Len(heap) : heap[i].fill = 0 /\ heap[i].pad = Bytes(8, 0)
    /\ arg.plain # <<>>
    /\ file # arg.plain

(* ------------------------------------------------------------------------ *)
(* rsa -d d n file on a file of any content                                 *)
(* ------------------------------------------------------------------------ *)

\* the length field and the number of bytes after it
MaxLength == 8
MaxBody == 3

Moduli == {U32(15), U32(143)}

\* arg holds the length field L and the bytes after it
InitDecrypt ==
    /\ pc = "encrypted"
    /\ arg \in {[L |-> l, body |-> Bytes(m, g)] :
                    l \in 0..MaxLength, m \in 0..MaxBody, g \in {0}}
    /\ res \in {[exit |-> "success", e |-> U32(5), n |-> n, d |-> U32(5)] :
                    n \in Moduli}
    /\ file = LengthBytes(arg.L) \o arg.body
    /\ heap = None
    /\ oob = FALSE

NextDecrypt == \E g \in Indeterminate : Decrypt(Bytes(8, g), g)

SpecDecrypt == InitDecrypt /\ [][NextDecrypt]_vars

\* C10: on a file whose length field passes the consistency check,
\* decrypt_file dereferences no byte outside the block read_file allocated.
C10_ReadsInBounds == pc = "decrypted" => ~oob

====
